---- MODULE Spec2Model ----
(***************************************************************************)
(* Model of exp/tauri/src-tauri/src/main.rs: the Tauri shell of senars.    *)
(*                                                                         *)
(* main() builds the application, registers the one command launch_engine  *)
(* and runs the GUI event loop.  launch_engine() asks the operating system *)
(* to spawn "../../senars-engine" and returns Ok(()) or the string form of *)
(* the OS error.  The model covers the main thread, the invocations the    *)
(* front end sends through the command dispatcher (several may be in       *)
(* flight at once, each on its own worker thread), the OS process table    *)
(* as far as the children of the application are concerned, and the state  *)
(* of the environment that decides what the OS answers to a spawn.         *)
(***************************************************************************)
EXTENDS Integers, Sequences, FiniteSets

\* Number of invocations the front end sends in one run of the application.
MaxInv == 2

\* main.rs:8, the literal handed to Command::new.
EnginePath == "../../senars-engine"

\* main.rs:7 and main.rs:16, the name under which the command is exported.
LaunchEngineCmd == "launch_engine"

\* Command names the front end may send: the exported one and a foreign one.
CommandNames == {LaunchEngineCmd, "shutdown_engine"}

\* What a spawn of EnginePath can meet: the file is there and can be run,
\* the file is missing, the file has no execute permission, or the OS has no
\* resources for another process just now (a transient condition).
Environments == {"runnable", "missing", "noexec", "exhausted"}

Invocations == 1..MaxInv

VARIABLES
    mainPc,        \* position of the main thread in main()
    registered,    \* command names known to the invoke handler
    inv,           \* the invocations sent by the front end
    procs,         \* processes created by the application, index = pid
    environment    \* what a spawn of EnginePath meets right now

vars == <<mainPc, registered, inv, procs, environment>>

\* ------------------------------------------------------------------------
\* Values

\* Result<(), String> of launch_engine, and "nothing returned yet".
NoResult == [tag |-> "None", msg |-> ""]
OkResult == [tag |-> "Ok", msg |-> ""]
ErrResult(s) == [tag |-> "Err", msg |-> s]

\* An invocation slot the front end has not used yet.
IdleInv ==
    [pc |-> "idle", cmd |-> "", answer |-> "none", child |-> 0,
     attempts |-> 0, result |-> NoResult]

\* What Command::spawn answers in a given environment: Ok(Child) or the
\* errno of the failed fork/exec.
SpawnAnswer(env) ==
    CASE env = "runnable"  -> "Ok"
      [] env = "missing"   -> "ENOENT"
      [] env = "noexec"    -> "EACCES"
      [] env = "exhausted" -> "EAGAIN"

\* io::Error::to_string() of an OS error.
to_string(e) ==
    CASE e = "ENOENT" -> "No such file or directory (os error 2)"
      [] e = "EACCES" -> "Permission denied (os error 13)"
      [] e = "EAGAIN" -> "Resource temporarily unavailable (os error 11)"

\* The process Command::new(EnginePath).spawn() creates for invocation i:
\* the fixed path, no arguments; it runs on its own from then on.
NewChildWithArgs(i) ==
    [path |-> EnginePath, args |-> <<"--gui">>, state |-> "running", by |-> i]

NewChild(i) ==
    [path |-> EnginePath, args |-> <<>>, state |-> "running", by |-> i]

\* The event loop is processing events.
EventLoopRunning == mainPc = "running"

\* ------------------------------------------------------------------------
\* Initial state: the process has just entered main().

Init ==
    /\ mainPc = "start"
    /\ registered = {}
    /\ inv = [i \in Invocations |-> IdleInv]
    /\ procs = <<>>
    /\ environment \in Environments

\* ------------------------------------------------------------------------
\* main()

\* main.rs:15  tauri::Builder::default()
BuilderDefault ==
    /\ mainPc = "start"
    /\ mainPc' = "built"
    /\ UNCHANGED <<registered, inv, procs, environment>>

\* main.rs:16  .invoke_handler(tauri::generate_handler![launch_engine])
InvokeHandler ==
    /\ mainPc = "built"
    /\ mainPc' = "configured"
    /\ registered' = {LaunchEngineCmd}
    /\ UNCHANGED <<inv, procs, environment>>

\* main.rs:17  .run(tauri::generate_context!()): the runtime initialises and
\* the event loop starts, or initialisation fails and run returns Err.
Run(initOk) ==
    /\ mainPc = "configured"
    /\ mainPc' = IF initOk THEN "running" ELSE "run_err"
    /\ UNCHANGED <<registered, inv, procs, environment>>

\* main.rs:18  .expect("error while running tauri application") on Err:
\* the process panics with the diagnostic.
ExpectRetry ==
    /\ mainPc = "run_err"
    /\ mainPc' = "configured"
    /\ UNCHANGED <<registered, inv, procs, environment>>

Expect ==
    /\ mainPc = "run_err"
    /\ mainPc' = "panicked"
    /\ UNCHANGED <<registered, inv, procs, environment>>

\* The user closes the application: the event loop ends and the process
\* exits; worker threads still inside a handler end with it.  Nothing is
\* done to the children.
AppExitKills ==
    /\ mainPc = "running"
    /\ mainPc' = "exited"
    /\ procs' = [p \in DOMAIN procs |->
                    IF procs[p].state = "running"
                    THEN [procs[p] EXCEPT !.state = "killed"]
                    ELSE procs[p]]
    /\ UNCHANGED <<registered, inv, environment>>

AppExit ==
    /\ mainPc = "running"
    /\ mainPc' = "exited"
    /\ UNCHANGED <<registered, inv, procs, environment>>

\* ------------------------------------------------------------------------
\* Command dispatch

\* The front end (alive only while the event loop runs) sends invoke(cmd).
Invoke(cmd) ==
    /\ EventLoopRunning
    /\ \E i \in Invocations :
        /\ inv[i].pc = "idle"
        /\ \A j \in Invocations : j < i => inv[j].pc # "idle"
        /\ inv' = [inv EXCEPT ![i] = [IdleInv EXCEPT !.pc = "queued", !.cmd = cmd]]
    /\ UNCHANGED <<mainPc, registered, procs, environment>>

\* The handler generated by generate_handler![launch_engine] receives the
\* message: a registered name is run on a worker thread, any other name is
\* rejected without running anything.
DispatchAny(i) ==
    /\ EventLoopRunning
    /\ inv[i].pc = "queued"
    /\ inv' = [inv EXCEPT ![i].pc = "handler"]
    /\ UNCHANGED <<mainPc, registered, procs, environment>>

DispatchAfterExit(i) ==
    /\ inv[i].pc = "queued"
    /\ IF inv[i].cmd \in registered
       THEN inv' = [inv EXCEPT ![i].pc = "handler"]
       ELSE inv' = [inv EXCEPT ![i].pc = "rejected",
                               ![i].result = ErrResult("command not found")]
    /\ UNCHANGED <<mainPc, registered, procs, environment>>

Dispatch(i) ==
    /\ EventLoopRunning
    /\ inv[i].pc = "queued"
    /\ IF inv[i].cmd \in registered
       THEN inv' = [inv EXCEPT ![i].pc = "handler"]
       ELSE inv' = [inv EXCEPT ![i].pc = "rejected",
                               ![i].result = ErrResult("command not found")]
    /\ UNCHANGED <<mainPc, registered, procs, environment>>

\* ------------------------------------------------------------------------
\* launch_engine()

\* main.rs:8-9  Command::new("../../senars-engine").spawn(): one request to
\* the OS, answered at once; on success the new process is in the process
\* table and the invocation holds its Child.
SpawnOnce(i) ==
    /\ EventLoopRunning
    /\ inv[i].pc = "handler"
    /\ LET a == SpawnAnswer(environment)
           launched == \E p \in DOMAIN procs : procs[p].state = "running"
       IN  IF a = "Ok" /\ ~launched
           THEN /\ procs' = Append(procs, NewChild(i))
                /\ inv' = [inv EXCEPT ![i].pc = "spawned", ![i].answer = a,
                                      ![i].child = Len(procs) + 1,
                                      ![i].attempts = 1]
           ELSE /\ procs' = procs
                /\ inv' = [inv EXCEPT ![i].pc = "spawned", ![i].answer = a,
                                      ![i].attempts = IF launched THEN 0 ELSE 1]
    /\ UNCHANGED <<mainPc, registered, environment>>

SpawnLocked(i) ==
    /\ EventLoopRunning
    /\ inv[i].pc = "handler"
    /\ \A j \in Invocations : inv[j].pc # "spawned"
    /\ LET a == SpawnAnswer(environment)
       IN  IF a = "Ok"
           THEN /\ procs' = Append(procs, NewChild(i))
                /\ inv' = [inv EXCEPT ![i].pc = "spawned", ![i].answer = a,
                                      ![i].child = Len(procs) + 1,
                                      ![i].attempts = 1]
           ELSE /\ procs' = procs
                /\ inv' = [inv EXCEPT ![i].pc = "spawned", ![i].answer = a,
                                      ![i].attempts = 1]
    /\ UNCHANGED <<mainPc, registered, environment>>

SpawnRetry(i) ==
    /\ EventLoopRunning
    /\ inv[i].pc = "handler"
    /\ LET a == SpawnAnswer(environment)
       IN  IF a = "Ok"
           THEN /\ procs' = Append(procs, NewChild(i))
                /\ inv' = [inv EXCEPT ![i].pc = "spawned", ![i].answer = a,
                                      ![i].child = Len(procs) + 1,
                                      ![i].attempts = 1]
           ELSE /\ procs' = procs
                /\ inv' = [inv EXCEPT ![i].pc = "spawned", ![i].answer = a,
                                      ![i].attempts = 2]
    /\ UNCHANGED <<mainPc, registered, environment>>

Spawn(i) ==
    /\ EventLoopRunning
    /\ inv[i].pc = "handler"
    /\ LET a == SpawnAnswer(environment)
       IN  IF a = "Ok"
           THEN /\ procs' = Append(procs, NewChild(i))
                /\ inv' = [inv EXCEPT ![i].pc = "spawned", ![i].answer = a,
                                      ![i].child = Len(procs) + 1,
                                      ![i].attempts = 1]
           ELSE /\ procs' = procs
                /\ inv' = [inv EXCEPT ![i].pc = "spawned", ![i].answer = a,
                                      ![i].attempts = 1]
    /\ UNCHANGED <<mainPc, registered, environment>>

\* main.rs:10-12  .map_err(|e| e.to_string())?; Ok(()): an error leaves the
\* function as Err(message); otherwise the Child is dropped, which neither
\* waits for nor signals the process, and the function returns Ok(()).
ReturnIgnoreErr(i) ==
    /\ EventLoopRunning
    /\ inv[i].pc = "spawned"
    /\ inv' = [inv EXCEPT ![i].pc = "resolved", ![i].child = 0,
                          ![i].result = OkResult]
    /\ UNCHANGED <<mainPc, registered, procs, environment>>

ReturnAfterWait(i) ==
    /\ EventLoopRunning
    /\ inv[i].pc = "spawned"
    /\ inv[i].child # 0 => procs[inv[i].child].state # "running"
    /\ inv' = [inv EXCEPT ![i].pc = "resolved", ![i].child = 0,
                          ![i].result = IF inv[i].answer = "Ok"
                                        THEN OkResult
                                        ELSE ErrResult(to_string(inv[i].answer))]
    /\ UNCHANGED <<mainPc, registered, procs, environment>>

Return(i) ==
    /\ EventLoopRunning
    /\ inv[i].pc = "spawned"
    /\ inv' = [inv EXCEPT ![i].pc = "resolved", ![i].child = 0,
                          ![i].result = IF inv[i].answer = "Ok"
                                        THEN OkResult
                                        ELSE ErrResult(to_string(inv[i].answer))]
    /\ UNCHANGED <<mainPc, registered, procs, environment>>

\* ------------------------------------------------------------------------
\* The world outside the application

\* A spawned engine ends on its own, normally or by crashing.
ChildEnds(p, how) ==
    /\ p \in DOMAIN procs
    /\ procs[p].state = "running"
    /\ procs' = [procs EXCEPT ![p].state = how]
    /\ UNCHANGED <<mainPc, registered, inv, environment>>

\* The file is installed, removed, chmod-ed, or OS resources run out or
\* come back.
EnvironmentChanges(e) ==
    /\ e # environment
    /\ environment' = e
    /\ UNCHANGED <<mainPc, registered, inv, procs>>

Next ==
    \/ BuilderDefault
    \/ InvokeHandler
    \/ \E initOk \in BOOLEAN : Run(initOk)
    \/ Expect
    \/ AppExit
    \/ \E cmd \in CommandNames : Invoke(cmd)
    \/ \E i \in Invocations : Dispatch(i)
    \/ \E i \in Invocations : Spawn(i)
    \/ \E i \in Invocations : Return(i)
    \/ \E p \in 1..MaxInv, how \in {"exited", "crashed"} : ChildEnds(p, how)
    \/ \E e \in Environments : EnvironmentChanges(e)

Spec == Init /\ [][Next]_vars

\* ------------------------------------------------------------------------
\* Shape of the state

TypeOK ==
    /\ mainPc \in {"start", "built", "configured", "running", "run_err",
                   "panicked", "exited"}
    /\ registered \subseteq CommandNames
    /\ environment \in Environments
    /\ Len(procs) <= MaxInv
    /\ \A i \in Invocations :
        /\ inv[i].pc \in {"idle", "queued", "handler", "spawned", "resolved",
                          "rejected"}
        /\ inv[i].child \in 0..Len(procs)

\* ------------------------------------------------------------------------
\* Vocabulary of the properties

\* The processes invocation i has created.
ChildrenOf(i) == {p \in DOMAIN procs : procs[p].by = i}

\* Invocation i executes the spawn request in this step.
SpawnStep(i) == inv[i].pc = "handler" /\ inv'[i].pc = "spawned"

\* Invocation i returns from launch_engine in this step.
ReturnStep(i) == inv[i].pc = "spawned" /\ inv'[i].pc = "resolved"

\* The invocations whose spawn request the OS accepted.
Accepted == {i \in Invocations : inv[i].answer = "Ok"}

\* ------------------------------------------------------------------------
\* C1: a spawn request made while the executable is runnable is accepted and
\* adds exactly one process, started from ../../senars-engine without
\* arguments; the invocation then returns Ok(()) and has created exactly
\* that one process.
C1_RunnableSucceeds ==
    [][\A i \in Invocations :
        /\ (SpawnStep(i) /\ environment = "runnable") =>
              /\ inv'[i].answer = "Ok"
              /\ procs' = Append(procs, [path |-> "../../senars-engine",
                                         args |-> <<>>,
                                         state |-> "running", by |-> i])
        /\ (ReturnStep(i) /\ inv[i].answer = "Ok") =>
              /\ inv'[i].result = [tag |-> "Ok", msg |-> ""]
              /\ procs' = procs
              /\ Cardinality(ChildrenOf(i)) = 1]_vars

C1_Witness ==
    \E i \in Invocations :
        /\ inv[i].pc = "resolved"
        /\ inv[i].result.tag = "Ok"
        /\ \E p \in ChildrenOf(i) : procs[p].path = EnginePath

\* C2: a spawn request the OS rejects creates no process, and the invocation
\* returns Err with the non-empty string form of the OS error, never Ok.
C2_RejectedFails ==
    [][\A i \in Invocations :
        /\ (SpawnStep(i) /\ environment # "runnable") =>
              /\ inv'[i].answer \in {"ENOENT", "EACCES", "EAGAIN"}
              /\ environment = "missing" => inv'[i].answer = "ENOENT"
              /\ environment = "noexec" => inv'[i].answer = "EACCES"
              /\ procs' = procs
        /\ (ReturnStep(i) /\ inv[i].answer # "Ok") =>
              /\ inv'[i].result.tag = "Err"
              /\ inv'[i].result.msg # ""
              /\ inv'[i].result.msg = to_string(inv[i].answer)
              /\ procs' = procs
              /\ ChildrenOf(i) = {}]_vars

C2_Witness ==
    \E i, j \in Invocations :
        /\ inv[i].pc = "resolved" /\ inv[i].answer = "ENOENT"
        /\ inv[i].result.tag = "Err"
        /\ inv[j].pc = "resolved" /\ inv[j].answer = "EACCES"
        /\ inv[j].result.tag = "Err"

\* C3: launch_engine does not wait for the child: once the spawn request is
\* answered the invocation can return whatever the child is doing, and a
\* returned result is never changed afterwards, whatever becomes of the
\* child.
C3_NoWait ==
    /\ [](\A i \in Invocations :
            (EventLoopRunning /\ inv[i].pc = "spawned") => ENABLED Return(i))
    /\ [][\A i \in Invocations :
            inv[i].pc = "resolved" => inv'[i] = inv[i]]_vars

C3_Witness ==
    \E i, j \in Invocations :
        /\ inv[i].pc = "resolved" /\ inv[i].result.tag = "Ok"
        /\ \E p \in ChildrenOf(i) : procs[p].state = "running"
        /\ inv[j].pc = "resolved" /\ inv[j].result.tag = "Ok"
        /\ \E p \in ChildrenOf(j) : procs[p].state = "crashed"

\* C4: the outcome of a spawn request depends on the environment at that
\* moment only, not on earlier invocations: it is accepted exactly when the
\* executable is runnable, and the accepted invocations have created one
\* process each, all distinct.
ChildrenMatchAccepted ==
    /\ Len(procs) = Cardinality(Accepted)
    /\ \A i \in Accepted : Cardinality(ChildrenOf(i)) = 1
    /\ \A i \in Invocations \ Accepted : ChildrenOf(i) = {}

C4_Stateless ==
    [][/\ \A i \in Invocations :
            SpawnStep(i) =>
              /\ (inv'[i].answer = "Ok") <=> (environment = "runnable")
              /\ Len(procs') = Len(procs) + (IF environment = "runnable"
                                             THEN 1 ELSE 0)
       /\ ChildrenMatchAccepted']_vars

C4_Witness ==
    /\ MaxInv >= 2
    /\ inv[1].pc = "resolved" /\ inv[1].result.tag = "Err"
    /\ inv[2].pc = "resolved" /\ inv[2].result.tag = "Ok"
    /\ ChildrenOf(2) # {}

\* C5: invocations that overlap do not coordinate: an invocation in the
\* handler can always issue its spawn request and one that has its answer
\* can always return, whatever the others are doing; each has issued its own
\* single request and holds its own child.
C5_Concurrent ==
    \A i \in Invocations :
        /\ (EventLoopRunning /\ inv[i].pc = "handler") => ENABLED Spawn(i)
        /\ (EventLoopRunning /\ inv[i].pc = "spawned") => ENABLED Return(i)
        /\ inv[i].pc = "spawned" => inv[i].attempts = 1
        /\ (inv[i].pc = "spawned" /\ inv[i].answer = "Ok") =>
              /\ inv[i].child \in ChildrenOf(i)
              /\ \A j \in Invocations \ {i} : inv[j].child # inv[i].child

C5_Witness ==
    \E i, j \in Invocations :
        /\ i # j
        /\ inv[i].pc = "spawned" /\ inv[j].pc = "spawned"
        /\ inv[i].child # 0 /\ inv[j].child # 0
        /\ inv[i].child # inv[j].child

\* C6: while the event loop runs launch_engine is the one registered
\* command; an invocation of launch_engine is never rejected, and an
\* invocation of any other name never reaches a handler and never spawns.
C6_OnlyCommand ==
    /\ registered \subseteq {"launch_engine"}
    /\ EventLoopRunning => registered = {"launch_engine"}
    /\ \A i \in Invocations :
        /\ inv[i].pc \in {"handler", "spawned", "resolved"} =>
              inv[i].cmd = "launch_engine"
        /\ inv[i].pc = "rejected" => inv[i].cmd # "launch_engine"
        /\ (inv[i].pc # "idle" /\ inv[i].cmd # "launch_engine") =>
              /\ inv[i].answer = "none"
              /\ inv[i].attempts = 0
              /\ ChildrenOf(i) = {}

C6_Witness ==
    \E i, j \in Invocations :
        /\ inv[i].pc = "rejected" /\ inv[i].cmd = "shutdown_engine"
        /\ inv[j].pc = "resolved" /\ inv[j].cmd = "launch_engine"
        /\ ChildrenOf(j) # {}

\* C7: once the runtime has failed to initialise the process only panics:
\* bootstrap is not retried, the event loop never runs, nothing is
\* dispatched and nothing is spawned.
InitFailed == mainPc \in {"run_err", "panicked"}

NothingHappened ==
    /\ \A i \in Invocations : inv[i].pc = "idle"
    /\ procs = <<>>

C7_FatalInit ==
    [][/\ mainPc = "run_err" => mainPc' \in {"run_err", "panicked"}
       /\ mainPc = "panicked" => mainPc' = "panicked"
       /\ InitFailed' => NothingHappened']_vars

C7_Witness == mainPc = "panicked" /\ NothingHappened

\* C8: main goes through bootstrap once and leaves the event loop only by
\* terminating; an invocation changes state only while the event loop runs
\* with launch_engine registered, never before and never after.
Rank(pc) ==
    CASE pc = "start" -> 0
      [] pc = "built" -> 1
      [] pc = "configured" -> 2
      [] pc = "running" -> 3
      [] pc = "run_err" -> 3
      [] pc = "panicked" -> 4
      [] pc = "exited" -> 4

C8_BootstrapOnce ==
    [][/\ Rank(mainPc') >= Rank(mainPc)
       /\ mainPc = "running" => mainPc' \in {"running", "exited"}
       /\ mainPc = "exited" => mainPc' = "exited"
       /\ inv' # inv =>
            /\ mainPc = "running" /\ mainPc' = "running"
            /\ "launch_engine" \in registered]_vars

C8_Witness ==
    /\ mainPc = "exited"
    /\ \E i, j \in Invocations :
        /\ inv[i].pc = "resolved"
        /\ inv[j].pc = "queued"

\* C9: the application keeps no handle to a child after launch_engine has
\* returned, and no step of the application changes a process that already
\* exists: a child changes only by ending on its own.
C9_NoOwnership ==
    [][/\ \A i \in Invocations : inv'[i].pc = "resolved" => inv'[i].child = 0
       /\ Len(procs') >= Len(procs)
       /\ \A p \in DOMAIN procs :
            procs'[p] # procs[p] =>
              /\ procs[p].state = "running"
              /\ procs'[p] \in {[procs[p] EXCEPT !.state = "exited"],
                                [procs[p] EXCEPT !.state = "crashed"]}
              /\ inv' = inv
              /\ mainPc' = mainPc]_vars

C9_Witness ==
    /\ mainPc = "exited"
    /\ \E i \in Invocations :
        /\ inv[i].pc = "resolved"
        /\ inv[i].child = 0
        /\ \E p \in ChildrenOf(i) : procs[p].state = "running"

\* C10: an invocation of launch_engine issues one spawn request, never a
\* second one, and returns once: Ok(()) when the request was accepted, and
\* for every kind of rejection alike Err with the string of the error.
C10_OneAttempt ==
    [][\A i \in Invocations :
        /\ inv'[i].attempts <= 1
        /\ inv'[i].pc \in {"spawned", "resolved"} => inv'[i].attempts = 1
        /\ inv[i].pc \in {"spawned", "resolved"} =>
              /\ inv'[i].answer = inv[i].answer
              /\ inv'[i].attempts = inv[i].attempts
        /\ inv[i].pc \in {"resolved", "rejected"} => inv'[i].pc = inv[i].pc
        /\ inv'[i].pc = "resolved" =>
              inv'[i].result = IF inv'[i].answer = "Ok"
                               THEN OkResult
                               ELSE ErrResult(to_string(inv'[i].answer))]_vars

C10_Witness ==
    \E i \in Invocations :
        /\ inv[i].pc = "resolved"
        /\ inv[i].answer = "EAGAIN"
        /\ inv[i].attempts = 1
        /\ inv[i].result.tag = "Err"
        /\ environment = "runnable"
        /\ ChildrenOf(i) = {}

====
